---- MODULE Spec2Model ----
(***************************************************************************)
(* bddcli: call definitions with diff-based inheritance (calls.py) and the *)
(* subprocess runner they are invoked through (runners.py).                *)
(*                                                                         *)
(* Python values are tagged sequences of strings, so that values of        *)
(* different Python types stay comparable:                                 *)
(*   None  -> <<"None">>        the sentinel -> <<"UNCHANGED">>            *)
(*   str s -> <<"str", s>>      list      -> <<"list", item, ...>>         *)
(*   dict  -> <<"dict", "K=V", ...>>                                       *)
(***************************************************************************)
EXTENDS Integers, Sequences, FiniteSets, TLC

VARIABLES
    calls,        \* the Call objects built so far, in construction order
    nops,         \* number of property writes/deletes performed so far
    virtual_env,  \* os.environ.get('VIRTUAL_ENV') of the test process
    last          \* what the most recent operation did and returned

vars == <<calls, nops, virtual_env, last>>

\* ------------------------------------------------------------------ bounds
MaxCalls == 2     \* FirstCall plus at most MaxCalls - 1 AlteredCalls
MaxOps == 2       \* property writes/deletes after construction

\* ------------------------------------------------------------------ values
None == <<"None">>
\* The sentinel calls.UNCHANGED, sole instance of class Unchanged (the name
\* UNCHANGED is reserved in TLA+).
Unchanged == <<"UNCHANGED">>
Str(s) == <<"str", s>>
List(items) == <<"list">> \o items
Dict(items) == <<"dict">> \o items

IsStr(v) == v[1] = "str"
IsList(v) == v[1] = "list"
IsDict(v) == v[1] = "dict"
Items(v) == Tail(v)

\* Python truthiness of a value: None, '' and empty collections are falsy.
Truthy(v) ==
    /\ v # None
    /\ v # Str("")
    /\ ~((IsList(v) \/ IsDict(v)) /\ Len(v) = 1)

Fields == {"stdin", "positionals", "flags", "extra_environ"}

\* The values a property is written with in the model: unset, an empty
\* collection, a concrete value.
FieldValues(key) ==
    CASE key = "stdin" -> {None, Str("in1")}
      [] key = "positionals" -> {None, List(<<>>), List(<<"p1", "p2">>)}
      [] key = "flags" -> {None, List(<<>>), List(<<"-g">>)}
      [] key = "extra_environ" -> {None, Dict(<<"A=1">>)}

\* ---------------------------------------------------------------- Response
\* Response(exit_code, stdout, stderr); an absent response (Python None) is the
\* empty sequence, a present one the one-element sequence holding the record.
Response(exit_code, stdout, stderr) ==
    [exit_code |-> exit_code, stdout |-> stdout, stderr |-> stderr]

NoResponse == <<>>
Some(r) == <<r>>

\* Response.to_dict()
ResponseToDict(r) == [exit_code |-> r.exit_code, stdout |-> r.stdout, stderr |-> r.stderr]

\* Response.__ne__: structural comparison of the three fields.
ResponseNe(a, b) ==
    IF a = NoResponse \/ b = NoResponse
    THEN a # b
    ELSE \/ a[1].exit_code # b[1].exit_code
         \/ a[1].stdout # b[1].stdout
         \/ a[1].stderr # b[1].stderr

\* What the spawned process may answer (the CompletedProcess of subprocess.run):
\* one result and three that differ from it in exactly one field.
CompletedProcess(returncode, stdout, stderr) ==
    [returncode |-> returncode, stdout |-> stdout, stderr |-> stderr]

ProcResults ==
    { CompletedProcess(0, "out", ""), CompletedProcess(2, "out", ""),
      CompletedProcess(0, "", ""), CompletedProcess(0, "out", "err") }

\* ------------------------------------------------------------------- Call
NoAttrs == [key \in {} |-> None]
EmptyDiff == [key \in {} |-> None]          \* self.diff = {}

\* dict.pop(key, None)
DictPop(d, key) == [k \in (DOMAIN d) \ {key} |-> d[k]]

\* d[key] = value
DictSet(d, key, value) == [k \in (DOMAIN d) \cup {key} |-> IF k = key THEN value ELSE d[k]]

\* d.update(e)
DictUpdate(d, e) == [k \in (DOMAIN d) \cup (DOMAIN e) |-> IF k \in DOMAIN e THEN e[k] ELSE d[k]]

KeepUpdateDiff(diff, key, value) ==
    IF value = Unchanged THEN diff ELSE DictSet(diff, key, value)

StoreUpdateDiff(diff, key, value) == DictSet(diff, key, value)

\* AlteredCall.update_diff
UpdateDiff(diff, key, value) ==
    IF value = Unchanged
    THEN DictPop(diff, key)
    ELSE DictSet(diff, key, value)

\* FirstCall.__init__: Call.__init__, then the four property setters.
FirstCall(title, positionals, flags, stdin, extra_environ, description, response) ==
    [ kind |-> "FirstCall",
      base_call |-> 0,
      title |-> title,
      description |-> description,
      response |-> response,
      attrs |-> [key \in Fields |->
                    CASE key = "stdin" -> stdin
                      [] key = "positionals" -> positionals
                      [] key = "flags" -> flags
                      [] key = "extra_environ" -> extra_environ],
      diff |-> EmptyDiff ]

\* AlteredCall.__init__: an empty diff, Call.__init__, then the four property
\* setters in the order stdin, positionals, flags, extra_environ.
AlteredCall(base_call, title, positionals, flags, stdin, extra_environ, description, response) ==
    [ kind |-> "AlteredCall",
      base_call |-> base_call,
      title |-> title,
      description |-> description,
      response |-> response,
      attrs |-> NoAttrs,
      diff |-> UpdateDiff(
                 UpdateDiff(
                   UpdateDiff(
                     UpdateDiff(EmptyDiff, "stdin", stdin),
                     "positionals", positionals),
                   "flags", flags),
                 "extra_environ", extra_environ) ]

\* Defaults of AlteredCall.__init__'s keyword parameters.
AlteredDefault(key) == IF key = "extra_environ" THEN None ELSE Unchanged

\* The property getters: FirstCall returns its attribute, AlteredCall returns
\* diff.get(key, base_call.<key>), following the chain of base calls.
RECURSIVE Get(_, _, _)
Get(cs, c, key) ==
    IF cs[c].kind = "FirstCall"
    THEN cs[c].attrs[key]
    ELSE IF key \in DOMAIN cs[c].diff
         THEN cs[c].diff[key]
         ELSE Get(cs, cs[c].base_call, key)

TitleOnly(call) == [k \in {"title"} |-> Str(call.title)]

WithResponse(call, result) ==
    IF call.response # NoResponse
    THEN DictSet(result, "response", ResponseToDict(call.response[1]))
    ELSE result

WithEnvironCallToDict(cs, c) ==
    LET r0 == TitleOnly(cs[c])
        r1 == IF Get(cs, c, "stdin") # None THEN DictSet(r0, "stdin", Get(cs, c, "stdin")) ELSE r0
        r2 == IF Get(cs, c, "positionals") # None
              THEN DictSet(r1, "positionals", Get(cs, c, "positionals")) ELSE r1
        r3 == IF Get(cs, c, "flags") # None THEN DictSet(r2, "flags", Get(cs, c, "flags")) ELSE r2
        r4 == IF Get(cs, c, "extra_environ") # None
              THEN DictSet(r3, "extra_environ", Get(cs, c, "extra_environ")) ELSE r3
    IN  WithResponse(cs[c], r4)

\* Call.to_dict
CallToDict(cs, c) ==
    LET r0 == TitleOnly(cs[c])
        r1 == IF Get(cs, c, "stdin") # None THEN DictSet(r0, "stdin", Get(cs, c, "stdin")) ELSE r0
        r2 == IF Get(cs, c, "positionals") # None
              THEN DictSet(r1, "positionals", Get(cs, c, "positionals")) ELSE r1
        r3 == IF Get(cs, c, "flags") # None THEN DictSet(r2, "flags", Get(cs, c, "flags")) ELSE r2
    IN  WithResponse(cs[c], r3)

\* AlteredCall.to_dict
AlteredToDict(cs, c) ==
    LET r0 == TitleOnly(cs[c])
        r1 == DictUpdate(r0, cs[c].diff)
        r2 == IF cs[c].description # None THEN DictSet(r1, "description", cs[c].description) ELSE r1
    IN  WithResponse(cs[c], r2)

\* to_dict as dispatched on the object's class
ToDictOf(cs, c) ==
    IF cs[c].kind = "FirstCall" THEN CallToDict(cs, c) ELSE AlteredToDict(cs, c)

\* ----------------------------------------------------------------- Runner
\* os.path.join for a directory without a trailing slash and a relative name
PathJoin(a, b) == a \o "/" \o b

\* SubprocessRunner.bootstrapper
Bootstrapper(venv) ==
    LET bindir == IF venv # None THEN PathJoin(venv[2], "bin") ELSE "/usr/local/bin"
    IN  PathJoin(bindir, "bddcli-bootstrapper")

\* The application descriptor handed to invoke/verify/conclude.
Application == [name |-> "app", address |-> "pkg:main"]

\* sep.join(words)
RECURSIVE Join(_, _)
Join(sep, words) ==
    IF words = <<>> THEN ""
    ELSE IF Len(words) = 1 THEN words[1]
    ELSE words[1] \o sep \o Join(sep, Tail(words))

\* The record of one call of SubprocessRunner.run: what sp.run was given and
\* what run returned or raised. spawned is FALSE when no process was started.
NoRun ==
    [ spawned |-> FALSE, raised |-> "None", command |-> <<>>, shell_command |-> "",
      input |-> None, env |-> None, cwd |-> None,
      result |-> CompletedProcess(0, "", ""), response |-> NoResponse ]

\* subprocess.run accepts None, str, bytes or os.PathLike as cwd.
CwdAccepted(working_directory) == working_directory = None \/ IsStr(working_directory)

PositionalsFirstRun(application, venv, positionals, flags, stdin, working_directory, environ, proc) ==
    LET c0 == <<Bootstrapper(venv), application.name, application.address>>
        c1 == IF Truthy(positionals) THEN c0 \o Items(positionals) ELSE c0
        command == IF Truthy(flags) THEN c1 \o Items(flags) ELSE c1
    IN  IF ~CwdAccepted(working_directory)
        THEN [NoRun EXCEPT !.raised = "TypeError", !.command = command,
                           !.shell_command = Join(" ", command), !.input = stdin,
                           !.env = environ, !.cwd = working_directory]
        ELSE [ spawned |-> TRUE, raised |-> "None", command |-> command,
               shell_command |-> Join(" ", command), input |-> stdin, env |-> environ,
               cwd |-> working_directory, result |-> proc,
               response |-> Some(Response(proc.returncode, proc.stdout, proc.stderr)) ]

\* SubprocessRunner(application).run(positionals, flags, stdin, working_directory,
\* environ); proc is what the spawned process answers.
Run(application, venv, positionals, flags, stdin, working_directory, environ, proc) ==
    LET c0 == <<Bootstrapper(venv), application.name, application.address>>
        c1 == IF Truthy(flags) THEN c0 \o Items(flags) ELSE c0
        command == IF Truthy(positionals) THEN c1 \o Items(positionals) ELSE c1
    IN  IF ~CwdAccepted(working_directory)
        THEN [NoRun EXCEPT !.raised = "TypeError", !.command = command,
                           !.shell_command = Join(" ", command), !.input = stdin,
                           !.env = environ, !.cwd = working_directory]
        ELSE [ spawned |-> TRUE, raised |-> "None", command |-> command,
               shell_command |-> Join(" ", command), input |-> stdin, env |-> environ,
               cwd |-> working_directory, result |-> proc,
               response |-> Some(Response(proc.returncode, proc.stdout, proc.stderr)) ]

\* Call.invoke: the fourth positional argument of run is working_directory, and
\* environ keeps its default None.
InvokeRun(cs, c, venv, proc) ==
    Run(Application, venv,
        Get(cs, c, "positionals"), Get(cs, c, "flags"), Get(cs, c, "stdin"),
        Get(cs, c, "extra_environ"), None, proc)

\* -------------------------------------------------------------- operations
NoDict == [k \in {} |-> None]
\* last: op, the call it acted on, the key and value of a property write, whether
\* the overlay had an entry for that key before, the arguments of a constructor
\* or of a direct runner call, the exception raised, the mapping to_dict
\* returned and the runner call made.
Idle ==
    [ op |-> "init", call |-> 1, key |-> "", value |-> None, had |-> FALSE,
      args |-> NoDict, raised |-> "None", result |-> NoDict, run |-> NoRun ]

HadKey(call, key) == call.kind = "AlteredCall" /\ key \in DOMAIN call.diff

Title(n) == IF n = 1 THEN "first" ELSE IF n = 2 THEN "second" ELSE "later"

ExpectedResponse == Some(Response(0, "out", ""))

\* Arguments the model constructs a FirstCall with: the keyword defaults, and
\* every field and the expected response given.
FirstCallArgs ==
    { [positionals |-> None, flags |-> None, stdin |-> None, extra_environ |-> None,
       response |-> NoResponse],
      [positionals |-> List(<<"p0">>), flags |-> List(<<"-f">>), stdin |-> Str("in0"),
       extra_environ |-> Dict(<<"A=0">>), response |-> ExpectedResponse] }

\* Arguments the model constructs an AlteredCall with: no overrides at all (the
\* keyword defaults), without and with description and response; every field
\* given as the sentinel; every field overridden.
AlteredCallArgs ==
    { [positionals |-> AlteredDefault("positionals"), flags |-> AlteredDefault("flags"),
       stdin |-> AlteredDefault("stdin"), extra_environ |-> AlteredDefault("extra_environ"),
       description |-> None, response |-> NoResponse],
      [positionals |-> AlteredDefault("positionals"), flags |-> AlteredDefault("flags"),
       stdin |-> AlteredDefault("stdin"), extra_environ |-> AlteredDefault("extra_environ"),
       description |-> Str("d"), response |-> ExpectedResponse],
      [positionals |-> Unchanged, flags |-> Unchanged, stdin |-> Unchanged,
       extra_environ |-> Unchanged, description |-> None, response |-> NoResponse],
      [positionals |-> List(<<"p1", "p2">>), flags |-> List(<<"-g">>),
       stdin |-> Str("in1"), extra_environ |-> Dict(<<"A=1">>),
       description |-> Str("d"), response |-> ExpectedResponse] }

Init ==
    /\ \E a \in FirstCallArgs :
          calls = << FirstCall(Title(1), a.positionals, a.flags, a.stdin,
                               a.extra_environ, None, a.response) >>
    /\ nops = 0
    /\ virtual_env = None
    /\ last = Idle

\* AlteredCall(base_call, title, ...); the model derives each new call from the
\* most recent one, so the calls form one chain down to the FirstCall.
NewAlteredCall(b, a) ==
    /\ Len(calls) < MaxCalls
    /\ calls' = Append(calls,
                   AlteredCall(b, Title(Len(calls) + 1), a.positionals, a.flags,
                               a.stdin, a.extra_environ, a.description, a.response))
    /\ last' = [Idle EXCEPT !.op = "new", !.call = Len(calls) + 1,
                            !.args = [key \in Fields |-> a[key]]]
    /\ UNCHANGED <<nops, virtual_env>>

\* call.<key> = value  (FirstCall stores the attribute, AlteredCall goes through
\* update_diff)
SetField(c, key, value) ==
    /\ nops < MaxOps
    /\ calls' = [calls EXCEPT ![c] =
                   IF @.kind = "FirstCall"
                   THEN [@ EXCEPT !.attrs[key] = value]
                   ELSE [@ EXCEPT !.diff = UpdateDiff(@, key, value)]]
    /\ nops' = nops + 1
    /\ last' = [Idle EXCEPT !.op = "set", !.call = c, !.key = key, !.value = value,
                            !.had = HadKey(calls[c], key)]
    /\ UNCHANGED virtual_env

PopDelField(c, key) ==
    /\ nops < MaxOps
    /\ calls[c].kind = "AlteredCall"
    /\ calls' = [calls EXCEPT ![c].diff = DictPop(@, key)]
    /\ last' = [Idle EXCEPT !.op = "del", !.call = c, !.key = key,
                            !.had = HadKey(calls[c], key)]
    /\ nops' = nops + 1
    /\ UNCHANGED virtual_env

\* del call.<key>  (only AlteredCall defines deleters): del self.diff[key]
DelField(c, key) ==
    /\ nops < MaxOps
    /\ calls[c].kind = "AlteredCall"
    /\ IF key \in DOMAIN calls[c].diff
       THEN /\ calls' = [calls EXCEPT ![c].diff = DictPop(@, key)]
            /\ last' = [Idle EXCEPT !.op = "del", !.call = c, !.key = key,
                                    !.had = HadKey(calls[c], key)]
       ELSE /\ calls' = calls
            /\ last' = [Idle EXCEPT !.op = "del", !.call = c, !.key = key,
                                    !.raised = "KeyError"]
    /\ nops' = nops + 1
    /\ UNCHANGED virtual_env

\* call.to_dict()
ToDict(c) ==
    /\ last' = [Idle EXCEPT !.op = "to_dict", !.call = c, !.result = ToDictOf(calls, c)]
    /\ UNCHANGED <<calls, nops, virtual_env>>

SetValues(call, key) ==
    IF call.kind = "AlteredCall" THEN FieldValues(key) \cup {Unchanged} ELSE FieldValues(key)

Next ==
    \/ \E a \in AlteredCallArgs : NewAlteredCall(Len(calls), a)
    \/ \E c \in 1..Len(calls), key \in Fields :
          \E value \in SetValues(calls[c], key) : SetField(c, key, value)
    \/ \E c \in 1..Len(calls), key \in Fields : DelField(c, key)
    \/ \E c \in 1..Len(calls) : ToDict(c)

Spec == Init /\ [][Next]_vars

\* ------------------------------------------------- invoke, verify, conclude
\* call.invoke(application)
Invoke(c, proc) ==
    LET run == InvokeRun(calls, c, virtual_env, proc)
    IN  /\ last' = [Idle EXCEPT !.op = "invoke", !.call = c, !.run = run,
                                !.raised = run.raised]
        /\ UNCHANGED <<calls, nops, virtual_env>>

ExitCodeOnlyVerify(c, proc) ==
    LET run == InvokeRun(calls, c, virtual_env, proc)
    IN  /\ last' = [Idle EXCEPT !.op = "verify", !.call = c, !.run = run,
                                !.raised = IF run.raised # "None" THEN run.raised
                                           ELSE IF calls[c].response = NoResponse
                                                   \/ calls[c].response[1].exit_code
                                                        # run.response[1].exit_code
                                                THEN "CallVerifyError"
                                                ELSE "None"]
        /\ UNCHANGED <<calls, nops, virtual_env>>

\* call.verify(application): an exception of invoke propagates; otherwise
\* CallVerifyError is raised when self.response != response.
Verify(c, proc) ==
    LET run == InvokeRun(calls, c, virtual_env, proc)
    IN  /\ last' = [Idle EXCEPT !.op = "verify", !.call = c, !.run = run,
                                !.raised = IF run.raised # "None" THEN run.raised
                                           ELSE IF ResponseNe(calls[c].response, run.response)
                                                THEN "CallVerifyError"
                                                ELSE "None"]
        /\ UNCHANGED <<calls, nops, virtual_env>>

AlwaysConclude(c, proc) ==
    LET run == InvokeRun(calls, c, virtual_env, proc)
    IN  /\ last' = [Idle EXCEPT !.op = "conclude", !.call = c, !.run = run,
                                !.raised = run.raised]
        /\ calls' = IF run.raised = "None"
                    THEN [calls EXCEPT ![c].response = run.response]
                    ELSE calls
        /\ UNCHANGED <<nops, virtual_env>>

\* call.conclude(application): nothing happens when a response is stored;
\* otherwise invoke runs and its Response is stored unless invoke raised.
Conclude(c, proc) ==
    IF calls[c].response # NoResponse
    THEN /\ last' = [Idle EXCEPT !.op = "conclude", !.call = c]
         /\ UNCHANGED <<calls, nops, virtual_env>>
    ELSE LET run == InvokeRun(calls, c, virtual_env, proc)
         IN  /\ last' = [Idle EXCEPT !.op = "conclude", !.call = c, !.run = run,
                                     !.raised = run.raised]
             /\ calls' = IF run.raised = "None"
                         THEN [calls EXCEPT ![c].response = run.response]
                         ELSE calls
             /\ UNCHANGED <<nops, virtual_env>>

\* A FirstCall, or a FirstCall and one AlteredCall derived from it.
InitInvoke ==
    /\ \E a \in FirstCallArgs :
          LET first == FirstCall(Title(1), a.positionals, a.flags, a.stdin,
                                 a.extra_environ, None, a.response)
          IN  \/ calls = <<first>>
              \/ \E b \in AlteredCallArgs :
                    calls = << first,
                               AlteredCall(1, Title(2), b.positionals, b.flags, b.stdin,
                                           b.extra_environ, b.description, b.response) >>
    /\ nops = 0
    /\ virtual_env = None
    /\ last = Idle

\* Property writes between the runs: a field is unset, or an overlay entry cleared.
ClearValues(call, key) ==
    IF call.kind = "AlteredCall" THEN {None, Unchanged} ELSE {None}

NextInvoke ==
    \/ \E c \in 1..Len(calls), proc \in ProcResults : Invoke(c, proc)
    \/ \E c \in 1..Len(calls), proc \in ProcResults : Verify(c, proc)
    \/ \E c \in 1..Len(calls), proc \in ProcResults : Conclude(c, proc)
    \/ \E c \in 1..Len(calls), key \in Fields :
          \E value \in ClearValues(calls[c], key) : SetField(c, key, value)

SpecInvoke == InitInvoke /\ [][NextInvoke]_vars

\* ------------------------------------------------------- the runner by itself
\* Arguments the model calls SubprocessRunner.run with directly.
RunArgs ==
    [ positionals : FieldValues("positionals"),
      flags : FieldValues("flags"),
      stdin : FieldValues("stdin"),
      working_directory : {None, Str("/tmp"), Dict(<<"A=1">>)},
      environ : FieldValues("extra_environ") ]

InitRun ==
    /\ calls = <<>>
    /\ nops = 0
    /\ virtual_env \in {None, Str("/venv")}
    /\ last = Idle

\* SubprocessRunner(Application).run(...)
RunnerRun(a, proc) ==
    LET run == Run(Application, virtual_env, a.positionals, a.flags, a.stdin,
                   a.working_directory, a.environ, proc)
    IN  /\ last' = [Idle EXCEPT !.op = "run", !.args = a, !.run = run,
                                !.raised = run.raised]
        /\ UNCHANGED <<calls, nops, virtual_env>>

NextRun == \E a \in RunArgs, proc \in ProcResults : RunnerRun(a, proc)

SpecRun == InitRun /\ [][NextRun]_vars

\* ------------------------------------------------------------------ claims
IsAltered(c) == c \in 1..Len(calls) /\ calls[c].kind = "AlteredCall"
IsFirst(c) == c \in 1..Len(calls) /\ calls[c].kind = "FirstCall"

\* C1: an AlteredCall constructed with only base and title reads every one of
\* stdin, positionals, flags and extra_environ as its base call reads it.
C1_NoOverridesReadBase ==
    ( /\ last.op = "new"
      /\ \A key \in Fields : last.args[key] = AlteredDefault(key) )
    => \A key \in Fields :
          Get(calls, last.call, key) = Get(calls, calls[last.call].base_call, key)

\* C2: invoke hands the runner the call's resolved positionals and flags for the
\* command, its resolved stdin as the input, its resolved extra_environ as the
\* environment of the process, and leaves the working directory unset.
C2_InvokeArguments ==
    last.op = "invoke" =>
        LET c == last.call
            flags == Get(calls, c, "flags")
            positionals == Get(calls, c, "positionals")
        IN  /\ last.run.command =
                  <<Bootstrapper(virtual_env), Application.name, Application.address>>
                  \o (IF Truthy(flags) THEN Items(flags) ELSE <<>>)
                  \o (IF Truthy(positionals) THEN Items(positionals) ELSE <<>>)
            /\ last.run.input = Get(calls, c, "stdin")
            /\ last.run.env = Get(calls, c, "extra_environ")
            /\ last.run.cwd = None

\* The two responses differ in at least one of exit_code, stdout, stderr.
DiffersInSomeField(expected, observed) ==
    \/ expected.exit_code # observed.exit_code
    \/ expected.stdout # observed.stdout
    \/ expected.stderr # observed.stderr

\* C3: verify on a call with a stored expected response raises the verification
\* error exactly when invoke returned a Response that differs from the stored
\* one in exit_code, stdout or stderr; raising or not, it changes no call.
C3_VerifyRaisesIffDiffers ==
    [][ last'.op = "verify" =>
          /\ calls' = calls
          /\ calls[last'.call].response # NoResponse =>
                ( last'.raised = "CallVerifyError"
                  <=> ( /\ last'.run.spawned
                        /\ DiffersInSomeField(calls[last'.call].response[1],
                                              last'.run.response[1]) ) ) ]_vars

\* C3 witness: verify has run on a call whose stored response differs from the
\* observed one in stderr only, and raised the verification error.
C3_Witness ==
    /\ last.op = "verify"
    /\ last.raised = "CallVerifyError"
    /\ calls[last.call].response # NoResponse
    /\ last.run.spawned
    /\ calls[last.call].response[1].exit_code = last.run.response[1].exit_code
    /\ calls[last.call].response[1].stdout = last.run.response[1].stdout

\* C4: a stored expected response is changed by no invoke, verify, conclude or
\* property write; conclude on a call that has one starts no process; and a
\* response appears only by conclude storing the Response it observed.
C4_ResponseSetOnce ==
    [][ \A c \in 1..Len(calls) :
          /\ calls[c].response # NoResponse =>
                /\ calls'[c].response = calls[c].response
                /\ (last'.op = "conclude" /\ last'.call = c) => ~last'.run.spawned
          /\ (calls[c].response = NoResponse /\ calls'[c].response # NoResponse) =>
                /\ last'.op = "conclude"
                /\ last'.call = c
                /\ last'.run.spawned
                /\ calls'[c].response = last'.run.response ]_vars

\* C4 witness: a response recorded by an earlier conclude (it is not the one any
\* constructor was given) has survived a later conclude that started no process.
C4_Witness ==
    /\ last.op = "conclude"
    /\ ~last.run.spawned
    /\ last.raised = "None"
    /\ calls[last.call].response # NoResponse
    /\ calls[last.call].response # ExpectedResponse

\* C5: after a property of an AlteredCall is written with the sentinel, the
\* overlay has no entry for it and the property reads as the base call reads it.
C5_SentinelRestoresBase ==
    (last.op = "set" /\ last.value = Unchanged /\ IsAltered(last.call)) =>
        /\ last.key \notin DOMAIN calls[last.call].diff
        /\ Get(calls, last.call, last.key)
             = Get(calls, calls[last.call].base_call, last.key)

\* C5 witness: the overlay held an entry for the property, the sentinel was
\* written, and the base's value for it is a set one.
C5_Witness ==
    /\ last.op = "set"
    /\ last.value = Unchanged
    /\ IsAltered(last.call)
    /\ last.had
    /\ Get(calls, calls[last.call].base_call, last.key) # None

\* C6: to_dict of a FirstCall has exactly the keys title, each of stdin,
\* positionals, flags that is not None, and response when one is stored, each
\* with the call's current value.
C6_FirstCallToDict ==
    (last.op = "to_dict" /\ IsFirst(last.call)) =>
        LET call == calls[last.call]
            present == {key \in {"stdin", "positionals", "flags"} : call.attrs[key] # None}
        IN  /\ DOMAIN last.result
                 = {"title"} \cup present
                   \cup (IF call.response # NoResponse THEN {"response"} ELSE {})
            /\ last.result["title"] = Str(call.title)
            /\ \A key \in present : last.result[key] = call.attrs[key]
            /\ call.response # NoResponse =>
                  last.result["response"] = ResponseToDict(call.response[1])

\* C6 witness: to_dict ran on a FirstCall with stdin unset, flags and
\* extra_environ set, and a response stored.
C6_Witness ==
    /\ last.op = "to_dict"
    /\ IsFirst(last.call)
    /\ calls[last.call].attrs["stdin"] = None
    /\ calls[last.call].attrs["flags"] # None
    /\ calls[last.call].attrs["extra_environ"] # None
    /\ calls[last.call].response # NoResponse

\* C7: to_dict of an AlteredCall has exactly the keys title, the keys of its own
\* overlay, description if set and response if set, and every key is one of
\* title, description, stdin, positionals, flags, response.
C7_AlteredToDictKeys ==
    (last.op = "to_dict" /\ IsAltered(last.call)) =>
        LET call == calls[last.call]
        IN  /\ DOMAIN last.result
                 = {"title"} \cup DOMAIN call.diff
                   \cup (IF call.description # None THEN {"description"} ELSE {})
                   \cup (IF call.response # NoResponse THEN {"response"} ELSE {})
            /\ DOMAIN last.result
                 \subseteq {"title", "description", "stdin", "positionals", "flags", "response"}

\* C8 as stated: clearing a property of an AlteredCall whose overlay has no entry
\* for it, by writing the sentinel or by del, raises a lookup failure.
C8_ClearingAbsentRaises ==
    ( /\ IsAltered(last.call)
      /\ ~last.had
      /\ \/ last.op = "del"
         \/ last.op = "set" /\ last.value = Unchanged )
    => last.raised = "KeyError"

\* C8 amended: on an AlteredCall whose overlay has no entry for a property, del
\* raises KeyError and writing the sentinel raises nothing; the overlay is left
\* as it was by both.
C8_DelAbsentRaisesSentinelSilent ==
    [][ ( /\ last'.op \in {"del", "set"}
          /\ IsAltered(last'.call)
          /\ ~last'.had )
        => /\ last'.op = "del" =>
                 /\ last'.raised = "KeyError"
                 /\ calls'[last'.call].diff = calls[last'.call].diff
           /\ (last'.op = "set" /\ last'.value = Unchanged) =>
                 /\ last'.raised = "None"
                 /\ calls'[last'.call].diff = calls[last'.call].diff ]_vars

\* C8 witness: del of a property the overlay had no entry for raised KeyError.
C8_Witness ==
    /\ last.op = "del"
    /\ IsAltered(last.call)
    /\ ~last.had
    /\ last.raised = "KeyError"

\* C9: run with an accepted working directory raises nothing, builds the command
\* helper, application name, application address, the flags in order, the
\* positionals in order (None or empty contributing nothing), and returns the
\* process's exit code, stdout and stderr unchanged.
C9_RunCommandAndResponse ==
    (last.op = "run" /\ CwdAccepted(last.args.working_directory)) =>
        /\ last.raised = "None"
        /\ last.run.command =
              <<Bootstrapper(virtual_env), Application.name, Application.address>>
              \o (IF last.args.flags \in {None, List(<<>>)} THEN <<>> ELSE Items(last.args.flags))
              \o (IF last.args.positionals \in {None, List(<<>>)}
                  THEN <<>> ELSE Items(last.args.positionals))
        /\ last.run.response # NoResponse
        /\ last.run.response[1].exit_code = last.run.result.returncode
        /\ last.run.response[1].stdout = last.run.result.stdout
        /\ last.run.response[1].stderr = last.run.result.stderr

\* C9 witness: run was given flags and positionals, and the process exited with
\* a non-zero code.
C9_Witness ==
    /\ last.op = "run"
    /\ last.raised = "None"
    /\ Truthy(last.args.flags)
    /\ Truthy(last.args.positionals)
    /\ last.run.result.returncode # 0
    /\ last.run.response # NoResponse

\* C10: no overlay entry of any AlteredCall is the sentinel; a field given as the
\* sentinel to the constructor has no overlay entry; and a property constructed
\* or written with any other value is stored in the overlay and read back.
C10_OverlayNeverHoldsSentinel ==
    /\ \A c \in 1..Len(calls) :
          calls[c].kind = "AlteredCall" =>
             \A key \in DOMAIN calls[c].diff : calls[c].diff[key] # Unchanged
    /\ last.op = "new" =>
          \A key \in Fields :
             IF last.args[key] = Unchanged
             THEN key \notin DOMAIN calls[last.call].diff
             ELSE /\ key \in DOMAIN calls[last.call].diff
                  /\ calls[last.call].diff[key] = last.args[key]
                  /\ Get(calls, last.call, key) = last.args[key]
    /\ (last.op = "set" /\ IsAltered(last.call) /\ last.value # Unchanged) =>
          /\ last.key \in DOMAIN calls[last.call].diff
          /\ calls[last.call].diff[last.key] = last.value
          /\ Get(calls, last.call, last.key) = last.value

\* C10 witness: an empty collection was written to a property of an AlteredCall
\* whose base has a non-empty value for it.
C10_Witness ==
    /\ last.op = "set"
    /\ IsAltered(last.call)
    /\ last.value = List(<<>>)
    /\ Truthy(Get(calls, calls[last.call].base_call, last.key))

====
